---- MODULE Spec2Model ----
(***************************************************************************)
(* Model of bevy_observed_utility's FixedScore scorer                      *)
(* (src/scoring/fixed.rs): the FixedScore settings component, its OnScore  *)
(* observer, and the on_add component hook that lazily installs the        *)
(* observer once through `commands.once::<Marker>().observe(..)`.          *)
(*                                                                         *)
(* The host (bevy) is modelled as a world of entities with two optional    *)
(* components, a command queue applied one command per step during a       *)
(* flush, commands queued by a hook being applied right after the command  *)
(* that ran the hook and before the rest of the batch.                     *)
(***************************************************************************)
EXTENDS Integers, Sequences, FiniteSets, TLC

\* ---------------------------------------------------------------- bounds
MaxEntities == 2      \* entity ids that can ever be allocated
MaxQueue == 2         \* commands the user queues before a flush
MaxBatch == 2         \* entities of one spawn_batch
MaxCalls == 4         \* calls made on one detached FixedScore
Scale == 1            \* a Score s stands for the number s / Scale

Entities == 1..MaxEntities
None == -1            \* "component absent"
NoEntity == 0

\* ---------------------------------------------------------------- Score
ScoreMin == 0
ScoreMax == Scale
Scores == ScoreMin..ScoreMax
RawValues == (ScoreMin - 1)..(ScoreMax + 1)

\* Score::from(value): clamps into the Score range
IntoScore(value) ==
    IF value < ScoreMin THEN ScoreMin
    ELSE IF value > ScoreMax THEN ScoreMax
    ELSE value

\* Score::default()
ScoreDefault == ScoreMin

\* ---------------------------------------------------------------- FixedScore
\* new that ignores its argument, as the derived Default does
FixedScore_new_Default(value) == [value |-> ScoreDefault]

\* FixedScore::new
FixedScore_new(value) == [value |-> IntoScore(value)]

\* FixedScore::value
FixedScore_value(self) == self.value

\* set_value that assigns to a copy: the stored value is not replaced
FixedScore_set_value_Dropped(self, value) == self

\* FixedScore::set_value
FixedScore_set_value(self, value) == [self EXCEPT !.value = IntoScore(value)]

FixedScores == [value : Scores]
NoFixed == [value |-> None]

VARIABLES
    allocated,    \* number of entity ids handed out so far
    alive,        \* entities that exist in the world
    score,        \* score[e]: the Score component of e, or None
    fixed,        \* fixed[e]: the FixedScore component of e, or NoFixed
    marker,       \* the resource FixedScoreObserverSpawned exists
    observers,    \* number of FixedScore::observer instances installed
    queue,        \* the world's command queue
    flushing,     \* world.flush() is applying the queue
    prevCmd,      \* the last operation applied to the world (hook commands apart)
    lastDispatch, \* what the last dispatch of OnScore did
    settingsA,    \* settingsA[e]: e's settings of a second scorer kind, or None
    markerA,      \* the marker resource of the second kind exists
    observersA,   \* number of handlers of the second kind installed
    calls,        \* values passed to new / set_value on a detached FixedScore
    settings      \* that detached FixedScore, or NoFixed before new

\* a FixedScore value that is on no entity
callVars == <<calls, settings>>

\* registration state of the second kind
kindVars == <<markerA, observersA>>

vars == <<allocated, alive, score, fixed, marker, observers, queue, flushing,
          prevCmd, lastDispatch, settingsA, kindVars, callVars>>

\* ---------------------------------------------------------------- commands
Cmd(op, e, n, fx, sc, once) ==
    [op |-> op, e |-> e, n |-> n, fixed |-> fx, score |-> sc, once |-> once,
     other |-> None]

NoCmd == Cmd("none", NoEntity, 0, NoFixed, None, FALSE)

\* the command queued by the on_add hook of FixedScore:
\* world.commands().once::<FixedScoreObserverSpawned>().observe(Self::observer)
OnAddHook == Cmd("observe", NoEntity, 0, NoFixed, None, TRUE)

\* the command queued by the on_add hook of the second kind
OnAddHookA == Cmd("observe_a", NoEntity, 0, NoFixed, None, TRUE)

NoDispatch == [target |-> NoEntity, matched |-> FALSE, runs |-> 0, writes |-> 0,
               writesA |-> 0, after |-> NoCmd]

Init ==
    /\ allocated = 0
    /\ alive = {}
    /\ score = [e \in Entities |-> None]
    /\ fixed = [e \in Entities |-> NoFixed]
    /\ marker = FALSE
    /\ observers = 0
    /\ queue = <<>>
    /\ flushing = FALSE
    /\ prevCmd = NoCmd
    /\ lastDispatch = NoDispatch
    /\ settingsA = [e \in Entities |-> None]
    /\ markerA = FALSE
    /\ observersA = 0
    /\ calls = <<>>
    /\ settings = NoFixed

\* ---------------------------------------------------------------- observer
\* Query<(&mut Score, &FixedScore)>::get_mut(entity).is_ok()
QueryMatches(entity, al, sc, fx) ==
    /\ entity \in al
    /\ sc[entity] # None
    /\ fx[entity] # NoFixed

\* the handler scoring every matching entity instead of the trigger's target
observer_All(target, al, sc, fx) ==
    [score |-> [e \in DOMAIN sc |->
                   IF QueryMatches(e, al, sc, fx)
                   THEN FixedScore_value(fx[e]) ELSE sc[e]],
     wrote |-> QueryMatches(target, al, sc, fx)]

\* the handler copying the target's value into every matching entity
observer_Broadcast(target, al, sc, fx) ==
    IF ~QueryMatches(target, al, sc, fx)
    THEN [score |-> sc, wrote |-> FALSE]
    ELSE [score |-> [e \in DOMAIN sc |->
                        IF QueryMatches(e, al, sc, fx)
                        THEN FixedScore_value(fx[target]) ELSE sc[e]],
          wrote |-> TRUE]

\* the handler querying the Score alone and falling back to default settings
observer_DefaultSettings(target, al, sc, fx) ==
    IF ~(target \in al /\ sc[target] # None)
    THEN [score |-> sc, wrote |-> FALSE]
    ELSE [score |-> [sc EXCEPT ![target] =
                        IF fx[target] # NoFixed
                        THEN FixedScore_value(fx[target]) ELSE ScoreDefault],
          wrote |-> TRUE]

\* the handler adding the fixed value to the Score instead of overwriting it
observer_Accumulate(target, al, sc, fx) ==
    IF ~QueryMatches(target, al, sc, fx)
    THEN [score |-> sc, wrote |-> FALSE]
    ELSE [score |-> [sc EXCEPT ![target] =
                        IntoScore(sc[target] + FixedScore_value(fx[target]))],
          wrote |-> TRUE]

\* FixedScore::observer: one run of the handler for a trigger at `target`;
\* returns the Score components after the run and whether it wrote one
observer(target, al, sc, fx) ==
    IF ~QueryMatches(target, al, sc, fx)
    THEN [score |-> sc, wrote |-> FALSE]
    ELSE [score |-> [sc EXCEPT ![target] = FixedScore_value(fx[target])],
          wrote |-> TRUE]

\* world.trigger_targets(OnScore, target): every installed observer runs once
RECURSIVE RunObservers(_, _, _, _, _)
RunObservers(k, target, al, sc, fx) ==
    IF k = 0
    THEN [score |-> sc, runs |-> 0, writes |-> 0]
    ELSE LET r == observer(target, al, sc, fx)
             rest == RunObservers(k - 1, target, al, r.score, fx)
         IN [score |-> rest.score,
             runs |-> rest.runs + 1,
             writes |-> rest.writes + (IF r.wrote THEN 1 ELSE 0)]

\* ---------------------------------------------------------------- second kind
\* the handler of a second kind: a no-op unless the target holds a Score and
\* that kind's settings, else it overwrites the Score with the computed one
\* (st[target] stands for the Score the kind computes from its settings)
observerA(target, al, sc, st) ==
    IF ~(target \in al /\ sc[target] # None /\ st[target] # None)
    THEN [score |-> sc, wrote |-> FALSE]
    ELSE [score |-> [sc EXCEPT ![target] = st[target]], wrote |-> TRUE]

RECURSIVE RunObserversA(_, _, _, _, _)
RunObserversA(k, target, al, sc, st) ==
    IF k = 0
    THEN [score |-> sc, runs |-> 0, writes |-> 0]
    ELSE LET r == observerA(target, al, sc, st)
             rest == RunObserversA(k - 1, target, al, r.score, st)
         IN [score |-> rest.score,
             runs |-> rest.runs + 1,
             writes |-> rest.writes + (IF r.wrote THEN 1 ELSE 0)]

\* the on_add hook of the second kind, run once per entity that received it
RECURSIVE RunHooksA(_, _)
RunHooksA(count, pending) ==
    IF count = 0 THEN pending
    ELSE RunHooksA(count - 1, Append(pending, OnAddHookA))

\* ---------------------------------------------------------------- hook
\* the hook installing the observer without the once::<Marker>() guard
register_component_hooks_NoOnce(pending) ==
    Append(pending, [OnAddHook EXCEPT !.once = FALSE])

\* the hook registered for another lifecycle event: on_add queues nothing
register_component_hooks_Skip(pending) == pending

\* the on_add hook registered by register_component_hooks: queues the guarded
\* installation of the observer behind what the running command queued so far
register_component_hooks(pending) == Append(pending, OnAddHook)

\* `count` entities received a FixedScore: the hook runs once for each
RECURSIVE RunHooks(_, _)
RunHooks(count, pending) ==
    IF count = 0 THEN pending
    ELSE RunHooks(count - 1, register_component_hooks(pending))

\* OnceCommands::observe applied to the world: check the marker resource,
\* create it and install the observer only when it is absent
OnceObserve(mk, obs) ==
    IF mk THEN [marker |-> TRUE, observers |-> obs]
    ELSE [marker |-> TRUE, observers |-> obs + 1]

\* ---------------------------------------------------------------- user side
\* only the step that dispatches a trigger leaves a dispatch record
Forget == lastDispatch' = NoDispatch

CanQueue == ~flushing /\ Len(queue) < MaxQueue

Enqueue(cmd) ==
    /\ queue' = Append(queue, cmd)
    /\ Forget
    /\ UNCHANGED <<alive, score, fixed, marker, observers, flushing, prevCmd>>
    /\ UNCHANGED <<settingsA, kindVars, callVars>>

\* commands.spawn(bundle) / commands.spawn_batch(n bundles): the ids are
\* reserved at once, the components arrive when the command is applied
QueueSpawn(n, fx, sc) ==
    /\ CanQueue
    /\ allocated + n <= MaxEntities
    /\ allocated' = allocated + n
    /\ Enqueue(Cmd("spawn", allocated + 1, n, fx, sc, FALSE))

\* commands.entity(e).try_insert(FixedScore::new(v))
QueueInsert(e, fx) ==
    /\ CanQueue
    /\ e <= allocated
    /\ UNCHANGED allocated
    /\ Enqueue(Cmd("insert", e, 1, fx, None, FALSE))

\* commands.entity(e).remove::<FixedScore>()
QueueRemove(e) ==
    /\ CanQueue
    /\ e <= allocated
    /\ UNCHANGED allocated
    /\ Enqueue(Cmd("remove", e, 1, NoFixed, None, FALSE))

\* commands.entity(e).despawn()
QueueDespawn(e) ==
    /\ CanQueue
    /\ e <= allocated
    /\ UNCHANGED allocated
    /\ Enqueue(Cmd("despawn", e, 1, NoFixed, None, FALSE))

\* commands.trigger_targets(OnScore, e)
QueueTrigger(e) ==
    /\ CanQueue
    /\ e <= allocated
    /\ UNCHANGED allocated
    /\ Enqueue(Cmd("trigger", e, 1, NoFixed, None, FALSE))

\* set_value that also recomputes the entity's Score
SetValue_Rescore(e, v) ==
    /\ ~flushing
    /\ e \in alive
    /\ fixed[e] # NoFixed
    /\ fixed' = [fixed EXCEPT ![e] = FixedScore_set_value(fixed[e], v)]
    /\ score' = [score EXCEPT ![e] = IF score[e] # None
                                     THEN FixedScore_value(fixed'[e]) ELSE None]
    /\ prevCmd' = Cmd("set_value", e, 1, FixedScore_new(v), score[e], FALSE)
    /\ lastDispatch' = NoDispatch
    /\ UNCHANGED <<allocated, alive, marker, observers, queue, flushing>>
    /\ UNCHANGED <<settingsA, kindVars, callVars>>

\* world.get_mut::<FixedScore>(e).unwrap().set_value(v)
SetValue(e, v) ==
    /\ ~flushing
    /\ e \in alive
    /\ fixed[e] # NoFixed
    /\ fixed' = [fixed EXCEPT ![e] = FixedScore_set_value(fixed[e], v)]
    /\ prevCmd' = Cmd("set_value", e, 1, FixedScore_new(v), score[e], FALSE)
    /\ Forget
    /\ UNCHANGED <<allocated, alive, score, marker, observers, queue, flushing>>
    /\ UNCHANGED <<settingsA, kindVars, callVars>>

\* world.flush() is called with commands pending
Flush ==
    /\ ~flushing
    /\ queue # <<>>
    /\ flushing' = TRUE
    /\ Forget
    /\ UNCHANGED <<allocated, alive, score, fixed, marker, observers, queue,
                   prevCmd>>
    /\ UNCHANGED <<settingsA, kindVars, callVars>>

\* ---------------------------------------------------------------- flush
Applying(op) == flushing /\ queue # <<>> /\ Head(queue).op = op

\* the head command is consumed; what it queued runs before the rest
\* and `done` is remembered as the previous operation on the world
Consume(pending, done) ==
    /\ queue' = pending \o Tail(queue)
    /\ flushing' = (queue' # <<>>)
    /\ prevCmd' = done

Targets(cmd) == cmd.e..(cmd.e + cmd.n - 1)

\* the hook registered for every spawned entity, whatever its components
ApplySpawn_HookAlways ==
    /\ Applying("spawn")
    /\ LET cmd == Head(queue)
           es == Targets(cmd)
       IN /\ alive' = alive \cup es
          /\ score' = [e \in Entities |-> IF e \in es THEN cmd.score ELSE score[e]]
          /\ fixed' = [e \in Entities |-> IF e \in es THEN cmd.fixed ELSE fixed[e]]
          /\ settingsA' = [e \in Entities |->
                             IF e \in es THEN cmd.other ELSE settingsA[e]]
          /\ Consume(RunHooksA(IF cmd.other # None THEN cmd.n ELSE 0,
                                RunHooks(cmd.n, <<>>)), cmd)
    /\ Forget
    /\ UNCHANGED <<allocated, marker, observers>>
    /\ UNCHANGED <<kindVars, callVars>>

ApplySpawn ==
    /\ Applying("spawn")
    /\ LET cmd == Head(queue)
           es == Targets(cmd)
       IN /\ alive' = alive \cup es
          /\ score' = [e \in Entities |-> IF e \in es THEN cmd.score ELSE score[e]]
          /\ fixed' = [e \in Entities |-> IF e \in es THEN cmd.fixed ELSE fixed[e]]
          /\ settingsA' = [e \in Entities |->
                             IF e \in es THEN cmd.other ELSE settingsA[e]]
          /\ Consume(RunHooksA(IF cmd.other # None THEN cmd.n ELSE 0,
                                RunHooks(IF cmd.fixed # NoFixed THEN cmd.n ELSE 0, <<>>)), cmd)
    /\ Forget
    /\ UNCHANGED <<allocated, marker, observers>>
    /\ UNCHANGED <<kindVars, callVars>>

ApplyInsert ==
    /\ Applying("insert")
    /\ LET cmd == Head(queue)
           added == cmd.e \in alive /\ fixed[cmd.e] = NoFixed
       IN /\ fixed' = IF cmd.e \in alive
                      THEN [fixed EXCEPT ![cmd.e] = cmd.fixed]
                      ELSE fixed
          /\ Consume(RunHooks(IF added THEN 1 ELSE 0, <<>>), cmd)
    /\ Forget
    /\ UNCHANGED <<allocated, alive, score, marker, observers>>
    /\ UNCHANGED <<settingsA, kindVars, callVars>>

\* removing the settings also resets the entity's Score to the default
ApplyRemove_ResetScore ==
    /\ Applying("remove")
    /\ LET cmd == Head(queue)
       IN /\ fixed' = [fixed EXCEPT ![cmd.e] = NoFixed]
          /\ score' = [score EXCEPT ![cmd.e] =
                          IF score[cmd.e] # None THEN ScoreDefault ELSE None]
          /\ Consume(<<>>, cmd)
    /\ Forget
    /\ UNCHANGED <<allocated, alive, marker, observers>>
    /\ UNCHANGED <<settingsA, kindVars, callVars>>

ApplyRemove ==
    /\ Applying("remove")
    /\ LET cmd == Head(queue)
       IN /\ fixed' = [fixed EXCEPT ![cmd.e] = NoFixed]
          /\ Consume(<<>>, cmd)
    /\ Forget
    /\ UNCHANGED <<allocated, alive, score, marker, observers>>
    /\ UNCHANGED <<settingsA, kindVars, callVars>>

\* despawning the last entity that holds FixedScore removes the observer and
\* the marker again
ApplyDespawn_Unregister ==
    /\ Applying("despawn")
    /\ LET cmd == Head(queue)
           last == /\ fixed[cmd.e] # NoFixed
                   /\ \A o \in Entities \ {cmd.e} : fixed[o] = NoFixed
       IN /\ alive' = alive \ {cmd.e}
          /\ score' = [score EXCEPT ![cmd.e] = None]
          /\ fixed' = [fixed EXCEPT ![cmd.e] = NoFixed]
          /\ settingsA' = [settingsA EXCEPT ![cmd.e] = None]
          /\ marker' = IF last THEN FALSE ELSE marker
          /\ observers' = IF last THEN 0 ELSE observers
          /\ Consume(<<>>, cmd)
    /\ Forget
    /\ UNCHANGED allocated
    /\ UNCHANGED <<kindVars, callVars>>

ApplyDespawn ==
    /\ Applying("despawn")
    /\ LET cmd == Head(queue)
       IN /\ alive' = alive \ {cmd.e}
          /\ score' = [score EXCEPT ![cmd.e] = None]
          /\ fixed' = [fixed EXCEPT ![cmd.e] = NoFixed]
          /\ settingsA' = [settingsA EXCEPT ![cmd.e] = None]
          /\ Consume(<<>>, cmd)
    /\ Forget
    /\ UNCHANGED <<allocated, marker, observers>>
    /\ UNCHANGED <<kindVars, callVars>>

ApplyTrigger ==
    /\ Applying("trigger")
    /\ LET cmd == Head(queue)
           Fixed(sc) == RunObservers(observers, cmd.e, alive, sc, fixed)
           KindA(sc) == RunObserversA(observersA, cmd.e, alive, sc, settingsA)
       IN \* the order in which the handlers of different kinds run is not fixed
          \E fixedFirst \in BOOLEAN :
             LET r1 == IF fixedFirst THEN Fixed(score) ELSE KindA(score)
                 r2 == IF fixedFirst THEN KindA(r1.score) ELSE Fixed(r1.score)
                 r == IF fixedFirst THEN r1 ELSE r2
                 ra == IF fixedFirst THEN r2 ELSE r1
             IN /\ score' = r2.score
                /\ lastDispatch' =
                      [target |-> cmd.e,
                       matched |-> QueryMatches(cmd.e, alive, score, fixed),
                       runs |-> r.runs, writes |-> r.writes,
                       writesA |-> ra.writes,
                       after |-> prevCmd]
                /\ Consume(<<>>, cmd)
    /\ UNCHANGED <<allocated, alive, fixed, marker, observers>>
    /\ UNCHANGED <<settingsA, kindVars, callVars>>

\* a command queued by the on_add hook is applied
ApplyObserve ==
    /\ Applying("observe")
    /\ LET cmd == Head(queue)
           r == IF cmd.once THEN OnceObserve(marker, observers)
                ELSE [marker |-> marker, observers |-> observers + 1]
       IN /\ marker' = r.marker
          /\ observers' = r.observers
    /\ Consume(<<>>, prevCmd)
    /\ Forget
    /\ UNCHANGED <<allocated, alive, score, fixed>>
    /\ UNCHANGED <<settingsA, kindVars, callVars>>


Next ==
    \/ \E n \in 1..MaxBatch, v \in RawValues, sc \in {None, ScoreDefault} :
          QueueSpawn(n, FixedScore_new(v), sc)
    \/ \E n \in 1..MaxBatch : QueueSpawn(n, NoFixed, ScoreDefault)
    \/ \E e \in Entities, v \in RawValues : QueueInsert(e, FixedScore_new(v))
    \/ \E e \in Entities : QueueRemove(e)
    \/ \E e \in Entities : QueueDespawn(e)
    \/ \E e \in Entities : QueueTrigger(e)
    \/ \E e \in Entities, v \in RawValues : SetValue(e, v)
    \/ Flush
    \/ ApplySpawn
    \/ ApplyInsert
    \/ ApplyRemove
    \/ ApplyDespawn
    \/ ApplyTrigger
    \/ ApplyObserve

Spec == Init /\ [][Next]_vars

\* ---------------------------------------------------------------- two kinds
\* commands.spawn((settings of the second kind, Score::default()))
QueueSpawnA(n, st) ==
    /\ CanQueue
    /\ allocated + n <= MaxEntities
    /\ allocated' = allocated + n
    /\ Enqueue([Cmd("spawn", allocated + 1, n, NoFixed, ScoreDefault, FALSE)
                   EXCEPT !.other = st])

\* the command queued by the second kind's on_add hook is applied
ApplyObserveA ==
    /\ Applying("observe_a")
    /\ LET r == OnceObserve(markerA, observersA)
       IN /\ markerA' = r.marker
          /\ observersA' = r.observers
    /\ Consume(<<>>, prevCmd)
    /\ Forget
    /\ UNCHANGED <<allocated, alive, score, fixed, marker, observers>>
    /\ UNCHANGED <<settingsA, callVars>>

NextKinds ==
    \/ Next
    \/ \E n \in 1..MaxBatch, st \in Scores : QueueSpawnA(n, st)
    \/ ApplyObserveA

SpecKinds == Init /\ [][NextKinds]_vars

\* ---------------------------------------------------------------- accessors
\* new, value and set_value on a FixedScore that is on no entity
worldVars == <<allocated, alive, score, fixed, marker, observers, queue,
               flushing, prevCmd, lastDispatch, settingsA, kindVars>>

\* let settings = FixedScore::new(v)
CallNew(v) ==
    /\ calls = <<>>
    /\ settings' = FixedScore_new(v)
    /\ calls' = <<v>>
    /\ UNCHANGED worldVars

\* settings.set_value(w)
CallSetValue(w) ==
    /\ calls # <<>>
    /\ Len(calls) < MaxCalls
    /\ settings' = FixedScore_set_value(settings, w)
    /\ calls' = Append(calls, w)
    /\ UNCHANGED worldVars

NextValues ==
    \/ \E v \in RawValues : CallNew(v)
    \/ \E w \in RawValues : CallSetValue(w)

SpecValues == Init /\ [][NextValues]_vars

TypeOK ==
    /\ allocated \in 0..MaxEntities
    /\ alive \subseteq 1..allocated
    /\ \A e \in Entities : score[e] \in Scores \cup {None}
    /\ \A e \in Entities : fixed[e] \in FixedScores \cup {NoFixed}
    /\ \A e \in Entities : e \notin alive => score[e] = None /\ fixed[e] = NoFixed
    /\ marker \in BOOLEAN
    /\ observers \in Nat
    /\ flushing \in BOOLEAN

\* ---------------------------------------------------------------- properties
value(e) == FixedScore_value(fixed[e])
Scorers == {e \in Entities : QueryMatches(e, alive, score, fixed)}
\* no command queued by a hook is waiting at the head of the queue
HooksSettled == ~(queue # <<>> /\ Head(queue).op = "observe")

\* C1: in every reachable state at most one FixedScore observer is installed,
\* and applying the guarded installation when the marker already exists
\* installs nothing and keeps the marker.
C1_InstalledAtMostOnce ==
    /\ [](observers <= 1)
    /\ [][(Applying("observe") /\ marker) =>
              (observers' = observers /\ marker')]_vars

\* C1 witness: two entities hold FixedScore after a completed flush, so the
\* guard has run at least twice and one observer is installed.
C1_Witness ==
    /\ ~flushing
    /\ Cardinality({e \in alive : fixed[e] # NoFixed}) >= 2
    /\ marker
    /\ observers = 1

\* C2: a dispatch at an entity that holds FixedScore and Score runs the
\* handler exactly once and overwrites the Score exactly once.
C2_HandlerRunsExactlyOnce ==
    lastDispatch.matched => (lastDispatch.runs = 1 /\ lastDispatch.writes = 1)

\* C2 witness: a dispatch has just matched while two scoring entities exist.
C2_Witness ==
    /\ lastDispatch.matched
    /\ lastDispatch.runs = 1
    /\ Cardinality(Scorers) >= 2

\* C3: the Score of an entity changes only in the step that dispatches a
\* trigger at that entity to an installed handler (or when the entity itself
\* is spawned or despawned, which creates or drops the component).
C3_ScoreChangesOnlyByOwnTrigger ==
    [][\A e \in Entities :
          score'[e] # score[e] =>
             \/ /\ Applying("trigger")
                /\ Head(queue).e = e
                /\ observers >= 1
                /\ QueryMatches(e, alive, score, fixed)
             \/ /\ Applying("spawn")
                /\ e \in Targets(Head(queue))
                /\ score[e] = None
             \/ /\ Applying("despawn")
                /\ Head(queue).e = e
                /\ score'[e] = None]_vars

\* C3 witness: a dispatch wrote its target's Score while another scoring
\* entity keeps a Score that differs from its own settings.
C3_Witness ==
    /\ lastDispatch.writes = 1
    /\ \E o \in Scorers \ {lastDispatch.target} : score[o] # value(o)

\* C4: dispatching at an entity that lacks Score or FixedScore changes
\* nothing: every Score, every settings component, the entities, the marker
\* and the installed handlers stay as they were.
C4_MissingComponentNoOp ==
    [][(Applying("trigger") /\ ~QueryMatches(Head(queue).e, alive, score, fixed)) =>
          /\ score' = score
          /\ fixed' = fixed
          /\ alive' = alive
          /\ marker' = marker
          /\ observers' = observers
          /\ lastDispatch'.writes = 0]_vars

\* C4 witness: the installed handler ran for a live entity that has only a
\* Score, and the Score still holds the non-default value it had.
C4_Witness ==
    /\ lastDispatch.target \in alive
    /\ ~lastDispatch.matched
    /\ lastDispatch.runs = 1
    /\ fixed[lastDispatch.target] = NoFixed
    /\ score[lastDispatch.target] = ScoreMax

\* C5: when the dispatch at an entity is the operation that follows the spawn
\* of that entity with (FixedScore v, Score), the Score equals v afterwards.
C5_FirstTriggerNotLost ==
    LET a == lastDispatch.after
        t == lastDispatch.target
    IN (a.op = "spawn" /\ t \in Targets(a) /\ a.fixed # NoFixed /\ a.score # None)
          => score[t] = FixedScore_value(a.fixed)

\* C5 witness: the very first entity was spawned with a non-default fixed
\* value and a default Score, and the trigger right after it set the Score.
C5_Witness ==
    LET a == lastDispatch.after
    IN /\ a.op = "spawn"
       /\ a.e = 1
       /\ lastDispatch.target = 1
       /\ a.fixed # NoFixed
       /\ FixedScore_value(a.fixed) = ScoreMax
       /\ a.score = ScoreDefault
       /\ score[1] = ScoreMax

\* C6: after every dispatch at a scoring entity its Score equals the stored
\* settings value, and a dispatch that directly follows a dispatch at the
\* same entity leaves every Score as it was.
C6_RepeatedDispatchIdempotent ==
    /\ [](lastDispatch.matched =>
             score[lastDispatch.target] = value(lastDispatch.target))
    /\ [][(/\ Applying("trigger")
           /\ prevCmd = Head(queue)
           /\ QueryMatches(Head(queue).e, alive, score, fixed)) =>
              score' = score]_vars

\* C6 witness: two dispatches in a row at the same scoring entity.
C6_Witness ==
    /\ lastDispatch.matched
    /\ lastDispatch.after.op = "trigger"
    /\ lastDispatch.after.e = lastDispatch.target
    /\ score[lastDispatch.target] = ScoreMax

\* C7: when the dispatch at an entity follows set_value(w) on that entity,
\* the Score equals w (as a Score) afterwards.
C7_SetValueThenDispatch ==
    LET a == lastDispatch.after
        t == lastDispatch.target
    IN (lastDispatch.matched /\ a.op = "set_value" /\ a.e = t)
          => score[t] = FixedScore_value(a.fixed)

\* C7 witness: the Score held before set_value differed from the new value.
C7_Witness ==
    LET a == lastDispatch.after
        t == lastDispatch.target
    IN /\ lastDispatch.matched
       /\ a.op = "set_value"
       /\ a.e = t
       /\ a.score # None
       /\ a.score # FixedScore_value(a.fixed)
       /\ score[t] = FixedScore_value(a.fixed)

\* C8: a step that changes settings outside a flush (set_value) changes no
\* Score, and after set_value on an entity its Score changes value only in a
\* dispatch at that entity.
C8_SetValueKeepsScore ==
    [][/\ (~flushing /\ fixed' # fixed) => score' = score
       /\ (/\ prevCmd.op = "set_value"
           /\ score'[prevCmd.e] # score[prevCmd.e]
           /\ score'[prevCmd.e] # None) =>
              (Applying("trigger") /\ Head(queue).e = prevCmd.e)]_vars

\* C8 witness: set_value has just stored a value that differs from the
\* entity's Score, which still has its old value.
C8_Witness ==
    /\ prevCmd.op = "set_value"
    /\ ~flushing
    /\ score[prevCmd.e] # None
    /\ value(prevCmd.e) = FixedScore_value(prevCmd.fixed)
    /\ score[prevCmd.e] = prevCmd.score
    /\ score[prevCmd.e] # value(prevCmd.e)

\* C9: after dispatches at two different scoring entities, one right after
\* the other, each entity's Score equals its own settings value.
C9_TwoEntitiesIndependent ==
    LET a == lastDispatch.after
        t == lastDispatch.target
    IN (/\ lastDispatch.matched
        /\ a.op = "trigger"
        /\ a.e # t
        /\ QueryMatches(a.e, alive, score, fixed))
          => (score[t] = value(t) /\ score[a.e] = value(a.e))

\* C9 witness: the later-spawned entity was dispatched first, the two
\* settings values differ and each Score has its own.
C9_Witness ==
    /\ lastDispatch.matched
    /\ lastDispatch.after.op = "trigger"
    /\ lastDispatch.after.e = 2
    /\ lastDispatch.target = 1
    /\ 2 \in Scorers
    /\ value(1) # value(2)
    /\ score[1] = value(1)
    /\ score[2] = value(2)

\* C10: once the commands queued by the hooks of a batch spawn (several
\* entities receiving FixedScore before any queued command is applied) have
\* been applied, the marker exists and exactly one handler is installed.
C10_BatchInstallsOnce ==
    (/\ prevCmd.op = "spawn"
     /\ prevCmd.n >= 2
     /\ prevCmd.fixed # NoFixed
     /\ HooksSettled)
       => (marker /\ observers = 1)

\* C10 witness: the first entities ever spawned came in one batch, the flush
\* is complete and one handler is installed.
C10_Witness ==
    /\ prevCmd.op = "spawn"
    /\ prevCmd.e = 1
    /\ prevCmd.n >= 2
    /\ prevCmd.fixed # NoFixed
    /\ queue = <<>>
    /\ marker
    /\ observers = 1

\* C11: once the marker exists and the handler is installed, both stay in
\* every later state, whatever is spawned, despawned, removed, set or
\* dispatched.
C11_RegisteredIsTerminal ==
    [][(marker /\ observers >= 1) => (marker' /\ observers' >= 1)]_vars

\* C11 witness: every entity ever allocated has been despawned and the kind is
\* still registered.
C11_Witness ==
    /\ allocated = MaxEntities
    /\ alive = {}
    /\ queue = <<>>
    /\ prevCmd.op = "despawn"
    /\ marker
    /\ observers = 1

\* commands queued by the FixedScore hook that wait in a queue
NumObserve(q) == Cardinality({i \in 1..Len(q) : q[i].op = "observe"})

\* C13: initially neither marker nor handler exists; the marker and the
\* handler change only when a command queued by the on_add hook is applied,
\* and such a command enters the queue only in the step that gives FixedScore
\* to an entity that did not hold it.
C13_LazyRegistration ==
    /\ (~marker /\ observers = 0)
    /\ [][/\ (marker' # marker \/ observers' # observers) => Applying("observe")
          /\ NumObserve(queue') > NumObserve(queue) =>
                \E e \in Entities : fixed[e] = NoFixed /\ fixed'[e] # NoFixed]_vars

\* C13 witness: entities with only a Score existed unregistered, then the
\* first FixedScore was inserted and the handler was installed.
C13_Witness ==
    /\ prevCmd.op = "insert"
    /\ queue = <<>>
    /\ Cardinality({e \in alive : fixed[e] # NoFixed}) = 1
    /\ fixed[prevCmd.e] # NoFixed
    /\ \A e \in alive : score[e] = ScoreDefault
    /\ Cardinality(alive) = MaxEntities
    /\ marker
    /\ observers = 1

\* C15: whenever no command is pending, the marker exists exactly when the
\* handler is installed.
C15_MarkerIffHandler ==
    queue = <<>> => (marker <=> observers >= 1)

\* C15 witness: a flush that inserted FixedScore has completed; marker and
\* handler both exist.
C15_Witness ==
    /\ queue = <<>>
    /\ ~flushing
    /\ prevCmd.op = "insert"
    /\ prevCmd.e \in alive
    /\ marker
    /\ observers = 1

\* C16: dispatching a trigger at E changes at most the Score of E: settings,
\* the other Scores, the entities, the marker and the handlers are unchanged.
C16_DispatchFrame ==
    [][Applying("trigger") =>
          /\ fixed' = fixed
          /\ alive' = alive
          /\ allocated' = allocated
          /\ marker' = marker
          /\ observers' = observers
          /\ \A o \in Entities \ {Head(queue).e} : score'[o] = score[o]]_vars

\* C16 witness: a dispatch wrote the Score of its target while a second
\* entity with a Score exists.
C16_Witness ==
    /\ lastDispatch.writes = 1
    /\ score[lastDispatch.target] = ScoreMax
    /\ \E o \in alive \ {lastDispatch.target} : score[o] = ScoreDefault

\* C17: removing FixedScore keeps the Score; a dispatch that follows the
\* removal writes nothing; inserting FixedScore again installs no second
\* handler, and the dispatch that follows the insertion writes the inserted
\* value exactly once.
C17_RemoveThenReAdd ==
    /\ [][Applying("remove") => (score' = score /\ observers' = observers)]_vars
    /\ [][Applying("insert") => (score' = score /\ observers' = observers)]_vars
    /\ [][(Applying("trigger") /\ fixed[Head(queue).e] = NoFixed) =>
              score' = score]_vars
    /\ [](observers <= 1)
    /\ [](LET a == lastDispatch.after
              t == lastDispatch.target
          IN /\ (a.op = "remove" /\ a.e = t) =>
                   (lastDispatch.writes = 0 /\ ~lastDispatch.matched)
             /\ (a.op = "insert" /\ a.e = t /\ lastDispatch.matched) =>
                   /\ score[t] = FixedScore_value(a.fixed)
                   /\ lastDispatch.runs = 1
                   /\ lastDispatch.writes = 1)

\* C17 witness: the only entity ever allocated received FixedScore while the
\* marker already existed, so its settings had been removed and were added
\* again; the guard queued by the hook is about to run again.
C17_Witness ==
    /\ allocated = 1
    /\ prevCmd.op = "insert"
    /\ prevCmd.e = 1
    /\ score[1] = ScoreMax
    /\ marker
    /\ observers = 1
    /\ queue # <<>>
    /\ Head(queue).op = "observe"

\* C18: dispatching a trigger at a despawned entity changes no component, no
\* entity, no marker and no handler.
C18_DespawnedTargetNoOp ==
    [][(Applying("trigger") /\ Head(queue).e \notin alive) =>
          /\ score' = score
          /\ fixed' = fixed
          /\ alive' = alive
          /\ marker' = marker
          /\ observers' = observers]_vars

\* C18 witness: the installed handler ran for a despawned target while a live
\* scoring entity keeps a Score that differs from its settings.
C18_Witness ==
    /\ lastDispatch.target # NoEntity
    /\ lastDispatch.target \notin alive
    /\ lastDispatch.runs = 1
    /\ lastDispatch.writes = 0
    /\ \E o \in Scorers : score[o] # value(o)

\* C14: after new(v), and after every set_value(w) that follows, value()
\* returns the last value passed, converted to a Score; every value of the
\* input set is accepted and yields a FixedScore.
C14_AccessorsReturnLastValue ==
    calls # <<>> =>
        /\ settings \in FixedScores
        /\ FixedScore_value(settings) = IntoScore(calls[Len(calls)])

\* C14 witness: new with an in-range value, then set_value calls ending with
\* a different, out-of-range value, which value() returns clamped.
C14_Witness ==
    /\ Len(calls) >= 3
    /\ calls[1] = ScoreMin
    /\ calls[Len(calls)] = ScoreMax + 1
    /\ FixedScore_value(settings) = ScoreMax

\* C12: after a dispatch at an entity that holds a Score and the settings of
\* exactly one of the two kinds, the Score is the one that kind computes,
\* written once by that kind's handler and not at all by the other kind's
\* handler; and installing a handler of either kind changes no component and
\* no entity.
C12_NoCrossKindLeakage ==
    /\ [](LET t == lastDispatch.target
          IN (t \in alive /\ score[t] # None) =>
                /\ (settingsA[t] # None /\ fixed[t] = NoFixed) =>
                      /\ score[t] = settingsA[t]
                      /\ lastDispatch.writesA = 1
                      /\ lastDispatch.writes = 0
                /\ (fixed[t] # NoFixed /\ settingsA[t] = None) =>
                      /\ score[t] = value(t)
                      /\ lastDispatch.writes = 1
                      /\ lastDispatch.writesA = 0)
    /\ [][(Applying("observe") \/ Applying("observe_a")) =>
              UNCHANGED <<score, fixed, settingsA, alive>>]_vars

\* C12 witness: both kinds are registered, the target holds only the second
\* kind's settings, FixedScore's handler ran for it and wrote nothing, and
\* the Score is the second kind's.
C12_Witness ==
    LET t == lastDispatch.target
    IN /\ t \in alive
       /\ observers = 1
       /\ observersA = 1
       /\ settingsA[t] = ScoreMax
       /\ fixed[t] = NoFixed
       /\ lastDispatch.runs = 1
       /\ lastDispatch.writes = 0
       /\ lastDispatch.writesA = 1
       /\ score[t] = ScoreMax
====
